---- MODULE Spec2Model ----
(***************************************************************************)
(* discolights: three output channels replay signed duration schedules,    *)
(* driven by the RTC0 tick interrupt of an nRF52833 (src/src/main.rs).     *)
(*                                                                         *)
(* The model follows entry() statement by statement up to the idle loop    *)
(* and the RTC0 handler step by step (acknowledge, then per channel the    *)
(* fetch_sub and, on expiry, adv_prg with its take / nucleus / replace /   *)
(* swap).  The RTC peripheral raises its TICK event at any time once the   *)
(* counter runs; the handler preempts entry() whenever the event is        *)
(* pending and the interrupt is enabled.                                   *)
(***************************************************************************)
EXTENDS Integers, Sequences, FiniteSets, TLC

VARIABLES
    schema,          \* Program.schema of each channel (never written after Init)
    overflowChecks,  \* build profile: TRUE = debug (overflow panics), FALSE = --release
    horizon,         \* number of ticks the run is followed for (history is kept that far)
    pcMain,          \* position of entry()
    irqEnabled,      \* RTC0 TICK interrupt enabled (INTENSET + NVIC)
    counterOn,       \* RTC0 counter started
    pending,         \* RTC0 EVENTS_TICK is set
    masked,          \* PRIMASK: entry() is inside interrupt_free
    borrowed,        \* the cells whose RefCell is mutably borrowed
    rtcCell,         \* RTC: "None" or "Some"
    prgCell,         \* RED_PRG / YEL_PRG / GRE_PRG: "None" or "Some"
    next,            \* Program.next of each channel
    level,           \* level of the pin behind Program.ctl
    countdown,       \* RED_COUNTDOWN / YEL_COUNTDOWN / GRE_COUNTDOWN (u16)
    hpc,             \* position of the RTC0 handler
    chan,            \* the channel the handler is working on
    interval,        \* adv_prg's local `interval` (u16)
    ticks,           \* history: number of invocations of RTC0
    acks,            \* history: reset_event calls of the current invocation
    decs,            \* history: fetch_sub calls of the current invocation
    consumed,        \* history: the schedule entry the channel's last advance read
    lastAdv,         \* history: the tick during which the channel last advanced
    nadv,            \* history: number of advances of the channel
    atEntry          \* history: countdown, next and level when the current invocation began

vars == <<schema, overflowChecks, horizon, atEntry, masked, borrowed, pcMain, irqEnabled, counterOn, pending, rtcCell,
          prgCell, next, level, countdown, hpc, chan, interval, ticks, acks, decs,
          consumed, lastAdv, nadv>>

-----------------------------------------------------------------------------
(* Bounds of the model *)

MaxTicks == 3002

\* ticks followed for the tables of extreme entries
MaxEdgeTicks == 3

\* ticks followed for the table with a zero entry: one turn of the 16-bit
\* countdown and the advances after it
MaxLongTicks == 65540

-----------------------------------------------------------------------------
(* Channels and schedule tables *)

RED == 1
YEL == 2
GRE == 3
Channels == {RED, YEL, GRE}

\* the guarded cells: RTC, and the program cell of each channel
RTC_CELL == 0
Cells == {RTC_CELL} \cup Channels

red_mix == <<1000, -1200, 800, -300, 100, -100, 200, -200, 140, -134>>
yel_mix == <<800, -300, 330, -370, 550, -880, 123, -555>>
gre_mix == <<-890, 990, -1111, 876, -345, 875, -432, 777, -321, 444, -1000, 100, -100>>

\* Other tables a Program<N> can be built with (N = 3, 2, 3, 1, 1).
mixE == <<1000, -1200, 800>>
mixA == <<2, -3>>
mixB == <<-1, 1, 2>>
mixC == <<5>>
mixD == <<-3>>

\* tables for the run over a whole turn of the countdown (N = 2, 1, 2)
mixZ == <<0, 2>>
mixF == <<32767>>
mixG == <<-30000, 30000>>

\* The builds the model explores: the tables given to the three Programs and
\* the profile (overflow checks on or off).
Builds ==
    { <<red_mix, yel_mix, gre_mix, FALSE>>,
      <<red_mix, yel_mix, gre_mix, TRUE>>,
      <<mixE, mixA, mixC, FALSE>>,
      <<mixA, mixB, mixD, TRUE>>,
      <<mixA, mixC, mixE, FALSE>>,
      <<mixD, mixA, mixA, TRUE>>,
      <<mixB, mixD, mixB, FALSE>> }

\* small tables in both profiles, for the runs without a bound on the ticks
LiveBuilds ==
    { <<mixA, mixB, mixD, chk>> : chk \in BOOLEAN } \cup { <<mixB, mixC, mixA, chk>> : chk \in BOOLEAN }

\* a release build with a zero entry in the red table
LongBuilds == { <<mixZ, mixF, mixG, FALSE>> }

-----------------------------------------------------------------------------
(* Integer arithmetic of the target *)

U16Mod == 65536
I16Max == 32767

\* the values of the schedule's element type, i16
I16 == (0 - I16Max - 1) .. I16Max

\* Builds whose tables hold the extreme values of i16, in both profiles.
EdgeValues == {0 - I16Max - 1, 0 - I16Max, -1, 1, I16Max}
EdgeBuilds == { << <<e>>, <<e, 1>>, <<1, e>>, chk >> : e \in EdgeValues, chk \in BOOLEAN }

\* x as u16
AsU16(x) == x % U16Mod

\* two's-complement wrap of x into i16
WrapI16(x) == ((x + I16Max + 1) % U16Mod) - (I16Max + 1)

\* AtomicU16::fetch_sub(1): the stored value wraps
FetchSubMutSaturating(v) == IF v = 0 THEN 0 ELSE v - 1
FetchSubMutAdd(v) == (v + 1) % U16Mod
FetchSub(v) == (v - 1) % U16Mod

-----------------------------------------------------------------------------
(* adv_prg_nucleus, as pure functions of the entry read *)

NextCursorMutNoWrap(n, len) == n + 1
NextCursorMutStay(n, len) == n
NextCursorMutModPlusOne(n, len) == (n + 1) % (len + 1)
NextCursor(n, len) == (n + 1) % len

LevelOfMutFlipped(e) == IF e < 0 THEN "high" ELSE "low"
LevelOf(e) == IF e < 0 THEN "low" ELSE "high"

\* `interval *= -1` overflows for i16::MIN: a panic with overflow checks
NegOverflows(e, checks) == checks /\ e < 0 /\ e * (-1) > I16Max

IntervalOfMutNoNeg(e) == AsU16(e)
IntervalOfMutOffByOne(e) == IF e < 0 THEN AsU16(WrapI16(e * (-1)) - 1) ELSE AsU16(e - 1)
IntervalOf(e) == IF e < 0 THEN AsU16(WrapI16(e * (-1))) ELSE AsU16(e)

-----------------------------------------------------------------------------
(* RTC0: which countdown belongs to which program, and the expiry test *)

InitCountdownMutTwo == 1 + 1
InitCountdownMutZero == 1 - 1
InitCountdown == 1

ExpiredMutZero(observed) == observed = 0
Expired(observed) == observed = 1

CountdownOfMutCrossed(c) == IF c = YEL THEN RED ELSE c
CountdownOf(c) == c

-----------------------------------------------------------------------------
\* history counters stop at the horizon
Count(x) == IF x < horizon THEN x + 1 ELSE x

\* the state before entry() runs, for one of the given builds
InitWith(builds, h) ==
    /\ \E b \in builds :
          /\ schema = [c \in Channels |-> b[c]]
          /\ overflowChecks = b[4]
    /\ horizon = h
    /\ pcMain = "setup"
    /\ irqEnabled = FALSE
    /\ counterOn = FALSE
    /\ pending = FALSE
    /\ masked = FALSE
    /\ borrowed = {}
    /\ rtcCell = "None"
    /\ prgCell = [c \in Channels |-> "None"]
    /\ next = [c \in Channels |-> 0]
    /\ level = [c \in Channels |-> "floating"]
    /\ countdown = [c \in Channels |-> InitCountdown]
    /\ hpc = "idle"
    /\ chan = RED
    /\ interval = 0
    /\ ticks = 0
    /\ acks = 0
    /\ decs = 0
    /\ consumed = [c \in Channels |-> 0]
    /\ lastAdv = [c \in Channels |-> 0]
    /\ nadv = [c \in Channels |-> 0]
    /\ atEntry = [countdown |-> countdown, next |-> next, level |-> level]

Init == InitWith(Builds, MaxTicks)

-----------------------------------------------------------------------------
(* Interrupt dispatch *)

\* The RTC0 handler is entered: the event is pending, the interrupt is enabled,
\* entry() is not inside interrupt_free and no handler is running.  A panicked handler never returns, so nothing
\* is dispatched after a panic.
IrqReadyMutFailSilent == irqEnabled /\ pending /\ ~masked /\ hpc \in {"idle", "panicked"}
IrqReadyMutUnmasked == irqEnabled /\ pending /\ hpc = "idle"
IrqReady == irqEnabled /\ pending /\ ~masked /\ hpc = "idle"

\* entry() runs only while no handler is active and none is due
MainRuns == hpc = "idle" /\ ~IrqReady

\* the RTC peripheral raises EVENTS_TICK once per prescaled period
HwTick ==
    /\ counterOn
    /\ ~pending
    /\ ticks < horizon
    /\ pending' = TRUE
    /\ UNCHANGED <<schema, overflowChecks, horizon, atEntry, masked, borrowed, pcMain, irqEnabled, counterOn, rtcCell,
                   prgCell, next, level, countdown, hpc, chan, interval, ticks,
                   acks, decs, consumed, lastAdv, nadv>>

-----------------------------------------------------------------------------
(* entry() *)

\* Board::take, Clocks::new, start_lfclk, Rtc::new
EntrySetup ==
    /\ MainRuns
    /\ pcMain = "setup"
    /\ pcMain' = "enable_interrupt"
    /\ UNCHANGED <<schema, overflowChecks, horizon, atEntry, masked, borrowed, irqEnabled, counterOn, pending, rtcCell,
                   prgCell, next, level, countdown, hpc, chan, interval, ticks,
                   acks, decs, consumed, lastAdv, nadv>>

\* rtc.enable_interrupt(RtcInterrupt::Tick, Some(&mut nvic))
EntryEnableInterrupt ==
    /\ MainRuns
    /\ pcMain = "enable_interrupt"
    /\ irqEnabled' = TRUE
    /\ pcMain' = "enable_counter"
    /\ UNCHANGED <<schema, overflowChecks, horizon, atEntry, masked, borrowed, counterOn, pending, rtcCell, prgCell,
                   next, level, countdown, hpc, chan, interval, ticks, acks, decs,
                   consumed, lastAdv, nadv>>

\* rtc.enable_counter()
EntryEnableCounter ==
    /\ MainRuns
    /\ pcMain = "enable_counter"
    /\ counterOn' = TRUE
    /\ pcMain' = "build"
    /\ UNCHANGED <<schema, overflowChecks, horizon, atEntry, masked, borrowed, irqEnabled, pending, rtcCell, prgCell,
                   next, level, countdown, hpc, chan, interval, ticks, acks, decs,
                   consumed, lastAdv, nadv>>

\* into_push_pull_output(Level::Low) for the three pins; the three Program
\* values are built with next: 0
EntryBuild ==
    /\ MainRuns
    /\ pcMain = "build"
    /\ level' = [c \in Channels |-> "low"]
    /\ next' = [c \in Channels |-> 0]
    /\ pcMain' = "install"
    /\ UNCHANGED <<schema, overflowChecks, horizon, atEntry, masked, borrowed, irqEnabled, counterOn, pending, rtcCell,
                   prgCell, countdown, hpc, chan, interval, ticks, acks, decs,
                   consumed, lastAdv, nadv>>

\* interrupt_free(move |cs| { : interrupts are masked for the closure
EntryMask ==
    /\ MainRuns
    /\ pcMain = "install"
    /\ masked' = TRUE
    /\ pcMain' = "install_red"
    /\ UNCHANGED <<schema, overflowChecks, horizon, atEntry, borrowed, irqEnabled, counterOn, pending,
                   rtcCell, prgCell, next, level, countdown, hpc, chan, interval,
                   ticks, acks, decs, consumed, lastAdv, nadv>>

\* the four statements of the closure, in order:
\* _ = X.borrow(cs).borrow_mut().replace(x);
\* borrow_mut panics when the cell is already borrowed; the borrow ends with
\* the statement
InstallSteps ==
    << <<"install_red", RED, "install_yel">>,
       <<"install_yel", YEL, "install_gre">>,
       <<"install_gre", GRE, "install_rtc">>,
       <<"install_rtc", RTC_CELL, "unmask">> >>

EntryInstall ==
    /\ MainRuns
    /\ \E i \in DOMAIN InstallSteps :
          LET cell == InstallSteps[i][2]
          IN  /\ pcMain = InstallSteps[i][1]
              /\ IF cell \in borrowed
                 THEN pcMain' = "panicked" /\ UNCHANGED <<rtcCell, prgCell>>
                 ELSE /\ pcMain' = InstallSteps[i][3]
                      /\ IF cell = RTC_CELL
                         THEN rtcCell' = "Some" /\ prgCell' = prgCell
                         ELSE rtcCell' = rtcCell /\ prgCell' = [prgCell EXCEPT ![cell] = "Some"]
    /\ UNCHANGED <<schema, overflowChecks, horizon, atEntry, masked, borrowed, irqEnabled, counterOn,
                   pending, next, level, countdown, hpc, chan, interval, ticks,
                   acks, decs, consumed, lastAdv, nadv>>

\* }); the closure returns and interrupts are enabled again
EntryUnmask ==
    /\ MainRuns
    /\ pcMain = "unmask"
    /\ masked' = FALSE
    /\ pcMain' = "loop"
    /\ UNCHANGED <<schema, overflowChecks, horizon, atEntry, borrowed, irqEnabled, counterOn, pending,
                   rtcCell, prgCell, next, level, countdown, hpc, chan, interval,
                   ticks, acks, decs, consumed, lastAdv, nadv>>

\* loop {}
EntryLoop ==
    /\ MainRuns
    /\ pcMain = "loop"
    /\ UNCHANGED vars

-----------------------------------------------------------------------------
(* RTC0() *)

\* the handler moves on to the next channel, or returns after the third
NextChannelMutReturnAfterAdvance ==
    IF chan = GRE \/ hpc = "swap"
    THEN hpc' = "idle" /\ chan' = RED
    ELSE hpc' = "fetch_sub" /\ chan' = chan + 1
NextChannel ==
    IF chan = GRE
    THEN hpc' = "idle" /\ chan' = RED
    ELSE hpc' = "fetch_sub" /\ chan' = chan + 1

\* let mut borrow = RTC.borrow(cs).borrow_mut(); let rtc = borrow.take().unwrap();
\* (the cell is free and holds Some)
RTC0_AckTake ==
    /\ IrqReady
    /\ RTC_CELL \notin borrowed
    /\ rtcCell = "Some"
    /\ borrowed' = borrowed \cup {RTC_CELL}
    /\ rtcCell' = "None"
    /\ hpc' = "ack_reset"
    /\ ticks' = Count(ticks)
    /\ atEntry' = [countdown |-> countdown, next |-> next, level |-> level]
    /\ acks' = 0
    /\ decs' = 0
    /\ UNCHANGED <<schema, overflowChecks, horizon, masked, pcMain, irqEnabled, counterOn, pending,
                   prgCell, next, level, countdown, chan, interval, consumed,
                   lastAdv, nadv>>

\* let mut borrow = RTC.borrow(cs).borrow_mut(); let rtc = borrow.take().unwrap();
\* (the cell is already borrowed, or it holds None: the borrow_mut or the unwrap
\* panics, and the panic handler loops with the interrupt still active)
RTC0_AckPanic ==
    /\ IrqReady
    /\ RTC_CELL \in borrowed \/ rtcCell = "None"
    /\ borrowed' = borrowed \cup {RTC_CELL}
    /\ hpc' = "panicked"
    /\ ticks' = Count(ticks)
    /\ atEntry' = [countdown |-> countdown, next |-> next, level |-> level]
    /\ acks' = 0
    /\ decs' = 0
    /\ UNCHANGED <<schema, overflowChecks, horizon, masked, pcMain, irqEnabled, counterOn, pending,
                   rtcCell, prgCell, next, level, countdown, chan, interval,
                   consumed, lastAdv, nadv>>

\* rtc.reset_event(RtcInterrupt::Tick);
RTC0_AckReset ==
    /\ hpc = "ack_reset"
    /\ pending' = FALSE
    /\ acks' = acks + 1
    /\ hpc' = "ack_replace"
    /\ UNCHANGED <<schema, overflowChecks, horizon, atEntry, masked, borrowed, pcMain, irqEnabled, counterOn, rtcCell,
                   prgCell, next, level, countdown, chan, interval, ticks, decs,
                   consumed, lastAdv, nadv>>

\* borrow.replace(rtc); and the closure ends, which ends the borrow
RTC0_AckReplace ==
    /\ hpc = "ack_replace"
    /\ rtcCell' = "Some"
    /\ borrowed' = borrowed \ {RTC_CELL}
    /\ hpc' = "fetch_sub"
    /\ chan' = RED
    /\ UNCHANGED <<schema, overflowChecks, horizon, atEntry, masked, pcMain, irqEnabled, counterOn, pending,
                   prgCell, next, level, countdown, interval, ticks, acks, decs,
                   consumed, lastAdv, nadv>>

\* if X_COUNTDOWN.fetch_sub(1, Relaxed) == 1 { adv_prg(&X_COUNTDOWN, &X_PRG); }
RTC0_FetchSub ==
    /\ hpc = "fetch_sub"
    /\ LET cd == CountdownOf(chan)
           observed == countdown[cd]
       IN  /\ countdown' = [countdown EXCEPT ![cd] = FetchSub(observed)]
           /\ IF Expired(observed)
              THEN hpc' = "adv_take" /\ chan' = chan
              ELSE NextChannel
    /\ decs' = decs + 1
    /\ UNCHANGED <<schema, overflowChecks, horizon, atEntry, masked, borrowed, pcMain, irqEnabled, counterOn, pending,
                   rtcCell, prgCell, next, level, interval, ticks, acks, consumed,
                   lastAdv, nadv>>

-----------------------------------------------------------------------------
(* adv_prg() and adv_prg_nucleus() *)

\* let mut borrow = prg.borrow(cs).borrow_mut(); let mut prg = borrow.take().unwrap();
AdvTake ==
    /\ hpc = "adv_take"
    /\ borrowed' = borrowed \cup {chan}
    /\ IF chan \in borrowed \/ prgCell[chan] = "None"
       THEN hpc' = "panicked" /\ prgCell' = prgCell
       ELSE hpc' = "adv_nucleus" /\ prgCell' = [prgCell EXCEPT ![chan] = "None"]
    /\ UNCHANGED <<schema, overflowChecks, horizon, atEntry, masked, pcMain, irqEnabled, counterOn, pending,
                   rtcCell, next, level, countdown, chan, interval, ticks, acks,
                   decs, consumed, lastAdv, nadv>>

\* adv_prg_nucleus(&prg.schema, &mut prg.next, &mut prg.ctl): the indexing
\* panics out of bounds; the negation panics on overflow with overflow checks,
\* after the cursor moved and the pin was driven low
AdvNucleus ==
    /\ hpc = "adv_nucleus"
    /\ LET s == schema[chan]
           next_val == next[chan]
       IN  IF next_val >= Len(s)
           THEN /\ hpc' = "panicked"
                /\ UNCHANGED <<next, level, interval, consumed, lastAdv, nadv>>
           ELSE LET e == s[next_val + 1]
                IN  /\ next' = [next EXCEPT ![chan] = NextCursor(next_val, Len(s))]
                    /\ level' = [level EXCEPT ![chan] = LevelOf(e)]
                    /\ consumed' = [consumed EXCEPT ![chan] = e]
                    /\ lastAdv' = [lastAdv EXCEPT ![chan] = ticks]
                    /\ nadv' = [nadv EXCEPT ![chan] = Count(nadv[chan])]
                    /\ IF NegOverflows(e, overflowChecks)
                       THEN hpc' = "panicked" /\ interval' = interval
                       ELSE hpc' = "adv_replace" /\ interval' = IntervalOf(e)
    /\ UNCHANGED <<schema, overflowChecks, horizon, atEntry, masked, borrowed, pcMain, irqEnabled, counterOn, pending,
                   rtcCell, prgCell, countdown, chan, ticks, acks, decs>>

\* borrow.replace(prg); and the closure ends, which ends the borrow
AdvReplaceMutDropped ==
    /\ hpc = "adv_replace"
    /\ borrowed' = borrowed \ {chan}
    /\ hpc' = "swap"
    /\ UNCHANGED <<schema, overflowChecks, horizon, atEntry, masked, pcMain, irqEnabled, counterOn, pending,
                   rtcCell, prgCell, next, level, countdown, chan, interval, ticks,
                   acks, decs, consumed, lastAdv, nadv>>
AdvReplace ==
    /\ hpc = "adv_replace"
    /\ prgCell' = [prgCell EXCEPT ![chan] = "Some"]
    /\ borrowed' = borrowed \ {chan}
    /\ hpc' = "swap"
    /\ UNCHANGED <<schema, overflowChecks, horizon, atEntry, masked, pcMain, irqEnabled, counterOn, pending,
                   rtcCell, next, level, countdown, chan, interval, ticks, acks,
                   decs, consumed, lastAdv, nadv>>

\* countdown.swap(interval, Ordering::Relaxed);
AdvSwap ==
    /\ hpc = "swap"
    /\ countdown' = [countdown EXCEPT ![CountdownOf(chan)] = interval]
    /\ NextChannel
    /\ UNCHANGED <<schema, overflowChecks, horizon, atEntry, masked, borrowed, pcMain, irqEnabled, counterOn, pending,
                   rtcCell, prgCell, next, level, interval, ticks, acks, decs,
                   consumed, lastAdv, nadv>>

-----------------------------------------------------------------------------
Next ==
    \/ HwTick
    \/ EntrySetup
    \/ EntryEnableInterrupt
    \/ EntryEnableCounter
    \/ EntryBuild
    \/ EntryMask
    \/ EntryInstall
    \/ EntryUnmask
    \/ EntryLoop
    \/ RTC0_AckTake
    \/ RTC0_AckPanic
    \/ RTC0_AckReset
    \/ RTC0_AckReplace
    \/ RTC0_FetchSub
    \/ AdvTake
    \/ AdvNucleus
    \/ AdvReplace
    \/ AdvSwap

Spec == Init /\ [][Next]_vars

\* the same program with a zero entry, followed over a turn of the countdown
InitLong == InitWith(LongBuilds, MaxLongTicks)
SpecLong == InitLong /\ [][Next]_vars

\* The free-running RTC: ticks keep arriving for ever.  The history counters
\* are switched off (horizon 0), so the state space is the program's own.
HwTickOn ==
    /\ counterOn
    /\ ~pending
    /\ pending' = TRUE
    /\ UNCHANGED <<schema, overflowChecks, horizon, atEntry, masked, borrowed, pcMain, irqEnabled, counterOn, rtcCell,
                   prgCell, next, level, countdown, hpc, chan, interval, ticks,
                   acks, decs, consumed, lastAdv, nadv>>

NextLive ==
    \/ HwTickOn
    \/ EntrySetup
    \/ EntryEnableInterrupt
    \/ EntryEnableCounter
    \/ EntryBuild
    \/ EntryMask
    \/ EntryInstall
    \/ EntryUnmask
    \/ EntryLoop
    \/ RTC0_AckTake
    \/ RTC0_AckPanic
    \/ RTC0_AckReset
    \/ RTC0_AckReplace
    \/ RTC0_FetchSub
    \/ AdvTake
    \/ AdvNucleus
    \/ AdvReplace
    \/ AdvSwap

InitLive == InitWith(LiveBuilds, 0)

\* the tick keeps arriving and the processor keeps executing whatever is due
SpecLive == InitLive /\ [][NextLive]_vars /\ WF_vars(HwTickOn) /\ WF_vars(NextLive)

\* the same program built with the tables of extreme entries
InitEdge == InitWith(EdgeBuilds, MaxEdgeTicks)
SpecEdge == InitEdge /\ [][Next]_vars

-----------------------------------------------------------------------------
(* Reference definitions used by the properties below *)

Abs(x) == IF x < 0 THEN 0 - x ELSE x

\* the level a schedule entry encodes
EntryLevel(m) == IF m < 0 THEN "low" ELSE "high"

\* sum of the magnitudes of the entries i..Len(s)
RECURSIVE SumAbsFrom(_, _)
SumAbsFrom(s, i) == IF i > Len(s) THEN 0 ELSE Abs(s[i]) + SumAbsFrom(s, i + 1)
Period(s) == SumAbsFrom(s, 1)

\* index of the entry whose window holds offset r, counting windows from entry i
RECURSIVE WindowFrom(_, _, _)
WindowFrom(s, r, i) ==
    IF i >= Len(s) \/ r < Abs(s[i]) THEN i ELSE WindowFrom(s, r - Abs(s[i]), i + 1)

\* offset of r inside its window
RECURSIVE OffsetFrom(_, _, _)
OffsetFrom(s, r, i) ==
    IF i >= Len(s) \/ r < Abs(s[i]) THEN r ELSE OffsetFrom(s, r - Abs(s[i]), i + 1)

\* the handler has returned from its latest invocation (or was never invoked)
AtRest == hpc = "idle"

\* startup has installed the four cells
Installed == pcMain = "loop"

\* startup has configured the three pins as outputs
PinsConfigured == pcMain \notin {"setup", "enable_interrupt", "enable_counter", "build"}

\* during the current invocation, channel c's turn is still to come or its
\* advance has not yet run its nucleus
TurnAhead(c) ==
    \/ hpc \in {"ack_reset", "ack_replace"}
    \/ hpc \in {"fetch_sub", "adv_take", "adv_nucleus", "adv_replace", "swap"} /\ chan < c
    \/ hpc \in {"fetch_sub", "adv_take", "adv_nucleus"} /\ chan = c

-----------------------------------------------------------------------------
(* C1: the tick interrupt is enabled only after the timer handle and the     *)
(* three Channel States are installed, so no invocation of RTC0 finds a cell *)
(* holding None and no unwrap of the handler fails.                          *)
C1_NoInvocationSeesNone ==
    /\ IrqReady => (rtcCell = "Some" /\ \A c \in Channels : prgCell[c] = "Some")
    /\ hpc # "panicked"

-----------------------------------------------------------------------------
(* C2: the advance that consumes a non-zero entry m while tick t is handled  *)
(* leaves the output at the level m encodes from tick t through t+|m|-1, and *)
(* the channel's next advance happens exactly while tick t+|m| is handled;   *)
(* for the table [1000, -1200, 800] the advances are at ticks 1, 1001, 2201  *)
(* and 3001.                                                                 *)
C2_LevelHeldForMagnitude ==
    \A c \in Channels :
        /\ (nadv[c] > 0 /\ consumed[c] # 0) =>
              LET m == consumed[c]
                  t == lastAdv[c]
              IN  /\ t <= ticks /\ ticks <= t + Abs(m)
                  /\ ticks < t + Abs(m) => level[c] = EntryLevel(m)
                  /\ ticks = t + Abs(m) => TurnAhead(c)
                  /\ (chan = c /\ hpc \in {"adv_take", "adv_nucleus"}) => ticks = t + Abs(m)
        /\ schema[c] = mixE =>
              /\ nadv[c] = 1 => lastAdv[c] = 1
              /\ nadv[c] = 2 => lastAdv[c] = 1001
              /\ nadv[c] = 3 => lastAdv[c] = 2201
              /\ nadv[c] = 4 => lastAdv[c] = 3001

C2_Witness ==
    /\ AtRest
    /\ schema[RED] = mixE /\ nadv[RED] = 4 /\ lastAdv[RED] = 3001 /\ level[RED] = "high"
    /\ schema[YEL] = mixA /\ consumed[YEL] = 2 /\ lastAdv[YEL] = 3001 /\ ticks = 3002

-----------------------------------------------------------------------------
\* the level a replay of table s shows after t ticks
RefLevel(s, t) ==
    IF t = 0 THEN "low" ELSE EntryLevel(s[WindowFrom(s, (t - 1) % Period(s), 1)])

(* C3: after t handled ticks the output level of a channel is a function of  *)
(* t and the channel's schedule table alone: low for t = 0 (the pin's        *)
(* configured level), and for t >= 1 the level of the entry whose window of  *)
(* cumulative magnitudes holds (t-1) mod S, S the sum of the magnitudes.     *)
C3_LevelIsReplayOfSchedule ==
    (AtRest /\ PinsConfigured) =>
        \A c \in Channels : level[c] = RefLevel(schema[c], ticks)

C3_Witness ==
    /\ AtRest
    /\ schema[RED] = mixA /\ ticks = 9 /\ level[RED] = "low"
    /\ schema[YEL] = mixB /\ level[YEL] = "low"
    /\ schema[GRE] = mixD /\ level[GRE] = "low"

-----------------------------------------------------------------------------
(* C4: every countdown starts at 1, so the first handled tick advances all   *)
(* three channels: after tick 1 each output has the level of entry 0, each   *)
(* cursor is 1 mod N and each countdown holds the magnitude of entry 0.      *)
C4_FirstTickAdvancesAll ==
    (AtRest /\ ticks = 1) =>
        \A c \in Channels :
            /\ nadv[c] = 1 /\ lastAdv[c] = 1
            /\ level[c] = EntryLevel(schema[c][1])
            /\ next[c] = 1 % Len(schema[c])
            /\ countdown[c] = Abs(schema[c][1])

C4_Witness ==
    /\ AtRest /\ ticks = 1
    /\ schema[RED] = red_mix /\ countdown[RED] = 1000 /\ level[RED] = "high"
    /\ schema[GRE] = gre_mix /\ countdown[GRE] = 890 /\ level[GRE] = "low"
    /\ next = [c \in Channels |-> 1]

-----------------------------------------------------------------------------
(* C5: after k advances the cursor is k mod N, and advance number k yields   *)
(* the level and the interval of entry (k-1) mod N, so the advances k+1..k+N *)
(* repeat the advances 1..N for every multiple k of N.                       *)
C5_CursorIsAdvancesModN ==
    \A c \in Channels :
        LET N == Len(schema[c])
            k == nadv[c]
        IN  /\ next[c] = k % N
            /\ k > 0 =>
                  LET m == schema[c][((k - 1) % N) + 1]
                  IN  /\ consumed[c] = m
                      /\ level[c] = EntryLevel(m)
                      /\ (chan = c /\ hpc \in {"adv_replace", "swap"}) => interval = Abs(m)
                      /\ (AtRest /\ lastAdv[c] = ticks) => countdown[c] = Abs(m)

C5_Witness ==
    /\ schema[YEL] = mixB /\ nadv[YEL] = 7 /\ next[YEL] = 1
    /\ chan = YEL /\ hpc = "swap" /\ interval = 1

-----------------------------------------------------------------------------
(* C6: a channel with a single non-zero entry m keeps the level m encodes    *)
(* from its first advance on, its cursor stays 0, and it advances again      *)
(* every |m| ticks (at ticks 1, 1+|m|, 1+2|m|, ...), each time reloading its *)
(* countdown with |m|.                                                       *)
C6_SingleEntryIsConstant ==
    \A c \in Channels :
        (Len(schema[c]) = 1 /\ nadv[c] >= 1) =>
            LET m == schema[c][1]
            IN  /\ level[c] = EntryLevel(m)
                /\ next[c] = 0
                /\ lastAdv[c] = 1 + (nadv[c] - 1) * Abs(m)
                /\ ticks <= lastAdv[c] + Abs(m)
                /\ ticks = lastAdv[c] + Abs(m) => TurnAhead(c)
                /\ (chan = c /\ hpc \in {"adv_replace", "swap"}) => interval = Abs(m)
                /\ AtRest => countdown[c] = lastAdv[c] + Abs(m) - ticks

C6_Witness ==
    /\ AtRest
    /\ schema[GRE] = mixD /\ nadv[GRE] = 3 /\ lastAdv[GRE] = 7 /\ ticks = 7
    /\ countdown[GRE] = 3 /\ level[GRE] = "low" /\ next[GRE] = 0

-----------------------------------------------------------------------------
\* cursor and countdown of a channel that runs table s alone, after t ticks
SoloCursor(s, t) ==
    IF t = 0 THEN 0 ELSE WindowFrom(s, (t - 1) % Period(s), 1) % Len(s)

SoloCountdown(s, t) ==
    IF t = 0 THEN 1
    ELSE LET r == (t - 1) % Period(s)
         IN  Abs(s[WindowFrom(s, r, 1)]) - OffsetFrom(s, r, 1)

C7_OwnTableDecides ==
    (AtRest /\ PinsConfigured) =>
        \A c \in Channels :
            /\ next[c] = SoloCursor(schema[c], ticks)
            /\ countdown[c] = SoloCountdown(schema[c], ticks)
            /\ level[c] = RefLevel(schema[c], ticks)

C7_AdvanceFrame ==
    \A c \in Channels :
        (chan = c /\ hpc \in {"adv_take", "adv_nucleus", "adv_replace", "swap"}) =>
            \A d \in Channels \ {c} :
                /\ countdown'[d] = countdown[d]
                /\ next'[d] = next[d]
                /\ level'[d] = level[d]
                /\ prgCell'[d] = prgCell[d]

(* C7: channels do not interfere.  Between invocations a channel's cursor,   *)
(* countdown and level are a function of its own table and the tick count,   *)
(* whatever tables the other two channels run (so they agree in any two runs *)
(* that give the channel the same table), and no step of one channel's       *)
(* advance changes another channel's countdown, cursor or output.            *)
C7_NoInterference == []C7_OwnTableDecides /\ [][C7_AdvanceFrame]_vars

C7_Witness ==
    /\ schema[RED] = mixA /\ schema[YEL] = mixB /\ schema[GRE] = mixD
    /\ ticks = 13 /\ chan = GRE /\ hpc = "swap"
    /\ lastAdv = [c \in Channels |-> 13]

-----------------------------------------------------------------------------
(* C8: every invocation of RTC0 clears the pending tick event exactly once   *)
(* (never twice, never not at all), before any countdown is decremented, and *)
(* puts the timer handle back into its cell afterwards.                      *)
C8_EveryInvocationAcksOnce ==
    /\ acks <= 1
    /\ decs > 0 => acks = 1
    /\ (ticks > 0 /\ hpc # "ack_reset") => acks = 1
    /\ (ticks > 0 /\ hpc \notin {"ack_reset", "ack_replace"}) => rtcCell = "Some"

\* What holds of the invocations that find the timer handle present.
C8_AcksOnceWhenHandlePresent ==
    /\ acks <= 1
    /\ decs > 0 => acks = 1
    /\ (ticks > 0 /\ hpc \notin {"ack_reset", "panicked"}) => acks = 1
    /\ (ticks > 0 /\ hpc \notin {"ack_reset", "ack_replace", "panicked"}) => rtcCell = "Some"

-----------------------------------------------------------------------------
\* a step taken after a panic changes nothing the outside can observe
C9_Frozen ==
    hpc = "panicked" =>
        /\ hpc' = "panicked"
        /\ level' = level
        /\ countdown' = countdown
        /\ next' = next
        /\ ticks' = ticks
        /\ pcMain' = pcMain

(* C9: fail-stop.  Once the handler has found a cell absent the system is    *)
(* halted: from then on no output level, countdown or cursor changes and no  *)
(* further tick is handled.                                                  *)
C9_FailStop == [](hpc = "panicked" => ~IrqReady /\ ~MainRuns) /\ [][C9_Frozen]_vars

C9_Witness ==
    /\ hpc = "panicked" /\ rtcCell = "None"
    /\ pending /\ irqEnabled /\ counterOn

-----------------------------------------------------------------------------
\* the handler is between a take and the matching replace
InRtcSection == hpc \in {"ack_reset", "ack_replace"}
InPrgSection(c) == chan = c /\ hpc \in {"adv_nucleus", "adv_replace"}

(* C10: once startup has installed them, the timer-handle cell and every     *)
(* Channel State cell hold Some in every state outside the critical section  *)
(* that took the value: the take/replace of the acknowledgment and of        *)
(* adv_prg put the value back.                                               *)
C10_CellsRestored ==
    Installed =>
        /\ ~InRtcSection => rtcCell = "Some"
        /\ \A c \in Channels : ~InPrgSection(c) => prgCell[c] = "Some"

C10_Witness ==
    /\ Installed /\ ticks = 3 /\ hpc = "swap" /\ chan = YEL
    /\ rtcCell = "Some" /\ prgCell = [c \in Channels |-> "Some"]
    /\ nadv[YEL] = 2

-----------------------------------------------------------------------------
\* the four cells all hold None, or all hold Some
AllAbsent == rtcCell = "None" /\ \A c \in Channels : prgCell[c] = "None"
AllPresent == rtcCell = "Some" /\ \A c \in Channels : prgCell[c] = "Some"

\* entry() is at one of the four replace statements of its critical section
InInstall == \E i \in DOMAIN InstallSteps : pcMain = InstallSteps[i][1]

(* C11: a guarded cell is accessed by entry() or by the handler, never by    *)
(* both: no tick is handled while the critical section that installs the     *)
(* four cells is in progress, an invocation never finds the cells partially  *)
(* installed, and no borrow_mut meets a cell that is already borrowed.       *)
C11_ExclusiveAccess ==
    /\ (masked \/ InInstall \/ pcMain = "unmask") => (hpc = "idle" /\ ~IrqReady)
    /\ InInstall => masked
    /\ IrqReady => (AllAbsent \/ AllPresent)
    /\ IrqReady => RTC_CELL \notin borrowed
    /\ hpc = "adv_take" => chan \notin borrowed
    /\ \A i \in DOMAIN InstallSteps :
          pcMain = InstallSteps[i][1] => InstallSteps[i][2] \notin borrowed
    /\ pcMain # "panicked"
    /\ hpc = "idle" => borrowed = {}

C11_Witness ==
    /\ pcMain = "install_gre" /\ masked
    /\ pending /\ irqEnabled /\ hpc = "idle"
    /\ prgCell[RED] = "Some" /\ prgCell[YEL] = "Some" /\ prgCell[GRE] = "None"
    /\ rtcCell = "None"

-----------------------------------------------------------------------------
\* entry values on both sides of the limits of i16 and of u16
MagnitudeSamples ==
    {-65535, -40000, -32769, -32768, -32767, -300, -1, 1, 800, 32767, 32768, 40000, 65535}

\* the advance that consumed entry m for channel c returned |m| and the
\* countdown was reloaded with it
ReloadedWithMagnitude(c) ==
    LET m == consumed[c]
    IN  /\ chan = c => hpc # "panicked"
        /\ level[c] = EntryLevel(m)
        /\ (chan = c /\ hpc \in {"adv_replace", "swap"}) => interval = Abs(m)
        /\ (AtRest /\ lastAdv[c] = ticks) => countdown[c] = Abs(m)

(* C12: every entry whose absolute value lies in 1..65535 can be held in a   *)
(* schedule table and, when consumed, reloads the countdown with exactly     *)
(* that absolute value.                                                      *)
C12_U16MagnitudesHonoured ==
    /\ \A m \in MagnitudeSamples : Abs(m) \in 1..(U16Mod - 1) => m \in I16
    /\ \A c \in Channels :
          (nadv[c] > 0 /\ Abs(consumed[c]) \in 1..(U16Mod - 1)) => ReloadedWithMagnitude(c)

(* C12, within i16: every entry whose absolute value lies in 1..32767 can be *)
(* held in a schedule table and, when consumed, reloads the countdown with   *)
(* exactly that absolute value, at either level and in either build profile. *)
C12_I16MagnitudesHonoured ==
    /\ \A m \in MagnitudeSamples : Abs(m) \in 1..I16Max => m \in I16
    /\ \A c \in Channels :
          (nadv[c] > 0 /\ Abs(consumed[c]) \in 1..I16Max) => ReloadedWithMagnitude(c)

C12_Witness ==
    /\ AtRest /\ ticks = 2 /\ overflowChecks
    /\ consumed[GRE] = 0 - I16Max /\ lastAdv[GRE] = 2
    /\ countdown[GRE] = I16Max /\ level[GRE] = "low"

-----------------------------------------------------------------------------
\* the handler invocation for the latest tick has returned
Handled == AtRest /\ ticks > 0

\* the entry under the channel's cursor when the current invocation began
EntryAtEntry(c) == schema[c][atEntry.next[c] + 1]

(* C13: when the handler observes 1 for a channel, the invocation ends with  *)
(* that channel's countdown equal to the absolute value of the entry that    *)
(* was under the cursor before the advance, the entry whose sign set the     *)
(* level: not 0, not the decremented value, not the entry after the cursor.  *)
C13_ReloadIsPreCursorMagnitude ==
    \A c \in Channels :
        (Handled /\ atEntry.countdown[c] = 1) =>
            /\ consumed[c] = EntryAtEntry(c)
            /\ level[c] = EntryLevel(EntryAtEntry(c))
            /\ countdown[c] = Abs(EntryAtEntry(c))
            /\ countdown[c] # 0
            /\ countdown[c] # FetchSub(atEntry.countdown[c])

C13_Witness ==
    /\ Handled /\ ticks = 3
    /\ schema[YEL] = mixA
    /\ atEntry.countdown[YEL] = 1 /\ atEntry.next[YEL] = 1
    /\ countdown[YEL] = 3 /\ level[YEL] = "low" /\ next[YEL] = 0

-----------------------------------------------------------------------------
C14_AdvancedIffObservedOne ==
    \A c \in Channels :
        Handled =>
            /\ lastAdv[c] = ticks <=> atEntry.countdown[c] = 1
            /\ atEntry.countdown[c] # 1 =>
                  /\ next[c] = atEntry.next[c]
                  /\ level[c] = atEntry.level[c]
                  /\ countdown[c] = atEntry.countdown[c] - 1

\* a step taken while entry() sits in its idle loop and no handler runs
C14_IdleLoopFrame ==
    (pcMain = "loop" /\ hpc = "idle" /\ hpc' = "idle") =>
        UNCHANGED <<schema, next, level, countdown, prgCell, rtcCell>>

\* a step of the handler that is no part of an advance
C14_DecrementFrame ==
    (hpc \in {"ack_reset", "ack_replace", "fetch_sub"}) =>
        UNCHANGED <<schema, next, level>>

(* C14: a channel advances during an invocation exactly when the value the   *)
(* handler observed for it is 1; otherwise its cursor, schedule and level    *)
(* are unchanged and its countdown is one less.  The idle loop of entry()    *)
(* changes nothing.                                                          *)
C14_AdvanceOnlyOnOne ==
    /\ []C14_AdvancedIffObservedOne
    /\ [][C14_IdleLoopFrame /\ C14_DecrementFrame]_vars

C14_Witness ==
    /\ Handled /\ ticks > 1 /\ pcMain = "loop"
    /\ atEntry.countdown[RED] = 1 /\ lastAdv[RED] = ticks
    /\ atEntry.countdown[YEL] > 1 /\ lastAdv[YEL] < ticks
    /\ countdown[YEL] = atEntry.countdown[YEL] - 1

-----------------------------------------------------------------------------
\* the largest magnitude among the entries of a table
MaxMagnitude(s) ==
    CHOOSE m \in {Abs(s[i]) : i \in DOMAIN s} : \A i \in DOMAIN s : Abs(s[i]) <= m

C17_CountdownInRange ==
    \A c \in Channels :
        /\ Handled => countdown[c] \in 1..MaxMagnitude(schema[c])
        /\ (hpc = "fetch_sub" /\ chan = c) => countdown[c] >= 1

\* the decrement of a fetch_sub step does not wrap
C17_NoWrap ==
    (hpc = "fetch_sub" /\ decs' = decs + 1) =>
        /\ countdown[chan] >= 1
        /\ countdown'[chan] = countdown[chan] - 1
        /\ \A d \in Channels \ {chan} : countdown'[d] = countdown[d]

(* C17: with non-zero entries, once the first tick has been handled every    *)
(* countdown at rest lies between 1 and the largest magnitude of its table;  *)
(* it is never 0 at rest, so the decrement never wraps.                      *)
C17_NeverZeroAtRest == []C17_CountdownInRange /\ [][C17_NoWrap]_vars

C17_Witness ==
    /\ Handled /\ schema[RED] = red_mix
    /\ countdown[RED] = 1 /\ nadv[RED] = 2 /\ consumed[RED] = -1200

-----------------------------------------------------------------------------
\* the longest table of the unbounded runs
MaxLen == 3

\* the advance of channel c that consumes entry i of its table is under way
Consuming(c, i) ==
    /\ i \in DOMAIN schema[c]
    /\ hpc = "swap" /\ chan = c
    /\ consumed[c] = schema[c][i]
    /\ next[c] = i % Len(schema[c])

(* C15: provided ticks keep arriving and every entry is non-zero, every      *)
(* channel advances infinitely often and every entry of every schedule is    *)
(* consumed infinitely often.                                                *)
C15_EveryEntryForever ==
    \A c \in Channels : \A i \in 1..MaxLen :
        []<>(i > Len(schema[c]) \/ Consuming(c, i))

\* the same, from the moment entry() has reached its idle loop
C15_EveryEntryForeverOnceInstalled ==
    \A c \in Channels : \A i \in 1..MaxLen :
        [](Installed => <>(i > Len(schema[c]) \/ Consuming(c, i)))

-----------------------------------------------------------------------------
\* what the handler does for one channel, on the values <<countdown, next,
\* level>> given in st
ChannelStep(st, c) ==
    IF st.countdown[c] = 1
    THEN LET m == schema[c][st.next[c] + 1]
         IN  [countdown |-> [st.countdown EXCEPT ![c] = Abs(m)],
              next      |-> [st.next EXCEPT ![c] = (st.next[c] + 1) % Len(schema[c])],
              level     |-> [st.level EXCEPT ![c] = EntryLevel(m)]]
    ELSE [st EXCEPT !.countdown[c] = (st.countdown[c] - 1) % U16Mod]

\* the orders in which the three channels can be processed
Orders == { o \in [1..3 -> Channels] : \A i, j \in 1..3 : o[i] = o[j] => i = j }

InOrder(st, o) == ChannelStep(ChannelStep(ChannelStep(st, o[1]), o[2]), o[3])

(* C16: channels whose countdowns expire on the same tick are all advanced   *)
(* within that invocation, and each channel's cursor, countdown and level    *)
(* are the same whatever the order the channels are processed in.            *)
C16_OrderIndependent ==
    Handled =>
        /\ \A c \in Channels : atEntry.countdown[c] = 1 => lastAdv[c] = ticks
        /\ \A o \in Orders :
              InOrder(atEntry, o) = [countdown |-> countdown, next |-> next, level |-> level]

C16_Witness ==
    /\ Handled /\ ticks = 13
    /\ schema[RED] = mixA /\ schema[YEL] = mixB /\ schema[GRE] = mixD
    /\ \A c \in Channels : atEntry.countdown[c] = 1 /\ lastAdv[c] = 13

-----------------------------------------------------------------------------
(* C18: the cursor of every channel satisfies 0 <= cursor < N in every       *)
(* state, so the indexing of the schedule never panics.                      *)
C18_CursorInBounds ==
    /\ \A c \in Channels : next[c] \in 0..(Len(schema[c]) - 1)
    /\ hpc = "adv_nucleus" => next[chan] < Len(schema[chan])
    /\ (hpc = "panicked" /\ chan \in borrowed) =>
          (next[chan] < Len(schema[chan]) /\ NegOverflows(consumed[chan], overflowChecks))

C18_Witness ==
    /\ Handled /\ schema[GRE] = mixB
    /\ nadv[GRE] = Len(mixB) /\ next[GRE] = 0 /\ consumed[GRE] = 2

-----------------------------------------------------------------------------
(* C19: consuming a zero entry drives the output high and reloads the        *)
(* countdown with 0; the next decrement observes 0 and wraps to 65535, so    *)
(* the channel advances again exactly 65536 ticks later and then resumes     *)
(* its schedule.                                                             *)
C19_ZeroEntryTakesFullTurn ==
    \A c \in Channels :
        /\ (nadv[c] > 0 /\ consumed[c] = 0) =>
              /\ level[c] = "high"
              /\ (Handled /\ lastAdv[c] = ticks) => countdown[c] = 0
              /\ (Handled /\ lastAdv[c] < ticks) =>
                    /\ ticks - lastAdv[c] < U16Mod
                    /\ countdown[c] = U16Mod - (ticks - lastAdv[c])
        /\ (schema[c] = mixZ /\ nadv[c] = 2) =>
              /\ consumed[c] = 2
              /\ lastAdv[c] = 1 + U16Mod
        /\ (schema[c] = mixZ /\ nadv[c] = 3) =>
              /\ consumed[c] = 0
              /\ lastAdv[c] = 1 + U16Mod + 2

C19_Witness ==
    /\ Handled /\ schema[RED] = mixZ
    /\ nadv[RED] = 3 /\ consumed[RED] = 0 /\ lastAdv[RED] = 65539
    /\ countdown[RED] = 0 /\ level[RED] = "high"

-----------------------------------------------------------------------------
(* C20: for every negative entry m of the element type, i16::MIN included,   *)
(* the advance negates m without overflowing i16 and returns exactly |m|.    *)
C20_NegationNeverOverflows ==
    \A c \in Channels :
        (nadv[c] > 0 /\ consumed[c] < 0) =>
            /\ consumed[c] * (-1) \in I16
            /\ ReloadedWithMagnitude(c)

====
